---- MODULE Spec2Model ----
(***************************************************************************)
(* Model of the logfire-go facade (package logfire, logfire.go).           *)
(*                                                                         *)
(* The facade keeps three package-level variables (globalTracer,           *)
(* globalServiceName, globalLogger), builds a config from options, and     *)
(* maps every log call onto "start a span, set attributes, end the span"   *)
(* against the tracer.  The OpenTelemetry SDK is modelled by what the      *)
(* facade asks of it: a store of spans (name, parent, attributes, end),    *)
(* a context that carries at most one span, and the installed provider.    *)
(*                                                                         *)
(* A context is represented by the id of the span it carries; 0 is         *)
(* context.Background(), which carries none.  A span handle is the id of   *)
(* the span in the store, NoopSpan for the non-recording span that         *)
(* SpanFromContext returns for a context without a span, or NilSpan for    *)
(* the nil interface value held by the global logger.                      *)
(***************************************************************************)
EXTENDS Integers, Sequences, FiniteSets, TLC

\* ------------------------------------------------------------------ bounds
MaxLoggers == 2   \* SpanLogger objects callers may create in one run
MaxCloses  == 2   \* Close calls in one run
MaxOpts    == 2   \* options passed to one Initialize call in SpecConfig

\* --------------------------------------------------------- input alphabets
Tokens       == {"", "tok"}
ServiceNames == {"", "svc-a"}
Endpoints    == {"http://localhost:4318"}
Msgs         == {"x"}
SpanNames    == {"outer"}

\* --------------------------------------------------------------- constants
serviceVersion         == "0.0.1"
defaultLogfireEndpoint == "https://logfire-api.pydantic.dev/v1"
logfireTracerName      == "logfire"

\* otellog.Severity values the SpanLogger methods pass to sendLog
SeverityTrace == 1
SeverityDebug == 5
SeverityInfo  == 9
SeverityWarn  == 13
SeverityError == 17
SeverityFatal == 21

Background == 0    \* context.Background(): carries no span
NoopSpan   == 0    \* the span SpanFromContext gives for a context without one
NilSpan    == -1   \* span: nil of the global logger

VARIABLES
    env,                \* value of LOGFIRE_TOKEN ("" when unset)
    globalTracer,       \* the tracer handle; NilTracer before Initialize
    globalServiceName,
    globalLogger,       \* [isNil, spanCtx, span]
    provider,           \* the provider installed by otel.SetTracerProvider
    loggers,            \* the SpanLogger objects handed to callers, each
                        \* with the function that made it and its Close calls
    spans,              \* the spans callers can still reach, by id
    status,             \* "running", "panicked", "exited" or "shutdown"
    last                \* the call just made: arguments, results, and the
                        \* spans it started and ended

vars == <<env, globalTracer, globalServiceName, globalLogger, provider,
          loggers, spans, status, last>>

\* ------------------------------------------------------------------ config
\* type config struct { ServiceName, APIToken, Endpoint }
config(name, token, endpoint) ==
    [ServiceName |-> name, APIToken |-> token, Endpoint |-> endpoint]

\* An Option is a closure over one value that assigns one field.
WithServiceName(name) == [field |-> "ServiceName", value |-> name]

WithEndpoint(endpoint) == [field |-> "Endpoint", value |-> endpoint]

WithAPIToken(token) == [field |-> "APIToken", value |-> token]

Options ==
    {WithServiceName(n) : n \in ServiceNames}
        \cup {WithEndpoint(e) : e \in Endpoints}
        \cup {WithAPIToken(t) : t \in Tokens}

\* option(config): the call of the closure on the config being built
ApplyOption(option, c) ==
    CASE option.field = "ServiceName" -> [c EXCEPT !.ServiceName = option.value]
      [] option.field = "Endpoint"    -> [c EXCEPT !.Endpoint = option.value]
      [] option.field = "APIToken"    -> [c EXCEPT !.APIToken = option.value]

RECURSIVE ApplyOptionsReversed(_, _)
\* ApplyOptions ranging over the options from the last to the first.
ApplyOptionsReversed(options, c) ==
    IF options = <<>> THEN c
    ELSE ApplyOption(Head(options), ApplyOptionsReversed(Tail(options), c))

RECURSIVE ApplyOptions(_, _)
\* for _, option := range options { option(config) }
ApplyOptions(options, c) ==
    IF options = <<>> THEN c
    ELSE ApplyOptions(Tail(options), ApplyOption(Head(options), c))

newConfigWithDefaults(options) ==
    ApplyOptions(options, config("", env, defaultLogfireEndpoint))

\* The option lists SpecConfig passes to Initialize.
OptionLists == UNION {[1..n -> Options] : n \in 0..MaxOpts}

\* The option lists Spec passes to Initialize: none, as the README does,
\* or one option.
SimpleOptionLists == {<<>>} \cup {<<o>> : o \in Options}

\* ------------------------------------------------------- the tracer's spans
\* attribute.String / attribute.Int build a KeyValue
AttrString(k, v) == [Key |-> k, Type |-> "STRING", S |-> v, I |-> 0]

AttrInt(k, v) == [Key |-> k, Type |-> "INT64", S |-> "", I |-> v]

\* The value a span holds under key k (the last one set), or the invalid
\* KeyValue when it holds none.
RECURSIVE AttrOf(_, _)
AttrOf(attrs, k) ==
    IF attrs = <<>> THEN [Key |-> k, Type |-> "INVALID", S |-> "", I |-> 0]
    ELSE IF attrs[Len(attrs)].Key = k THEN attrs[Len(attrs)]
    ELSE AttrOf(SubSeq(attrs, 1, Len(attrs) - 1), k)

\* globalTracer.Start(ctx, name): a new span whose parent is the span carried
\* by ctx; the new span's id is also the context returned.
TracerStart(sp, ctx, name) ==
    Append(sp, [name |-> name, parent |-> ctx, attrs |-> <<>>,
                ended |-> FALSE, endCalls |-> 0])

\* span.SetAttributes(kvs...)
SetAttributes(sp, id, kvs) == [sp EXCEPT ![id].attrs = @ \o kvs]

\* SpanEnd as a switch: a second End reopens the span.
SpanEndToggle(sp, id) ==
    [sp EXCEPT ![id].ended = ~@, ![id].endCalls = @ + 1]

\* span.End()
SpanEnd(sp, id) ==
    [sp EXCEPT ![id].ended = TRUE, ![id].endCalls = @ + 1]

\* SpanFromContext that never finds the span the context carries.
SpanFromContextNoop(ctx) == NoopSpan

\* oteltrace.SpanFromContext(ctx)
SpanFromContext(ctx) == IF ctx = Background THEN NoopSpan ELSE ctx

\* LogAttributes with the severity's rank (1..6) in place of its number.
LogAttributesRank(msg, severity) ==
    << AttrString("logfire.span_type", "log"),
       AttrString("logfire.msg_template", "log message template"),
       AttrString("logfire.msg", msg),
       AttrInt("logfire.level_num", (severity \div 4) + 1) >>

LogAttributes(msg, severity) ==
    << AttrString("logfire.span_type", "log"),
       AttrString("logfire.msg_template", "log message template"),
       AttrString("logfire.msg", msg),
       AttrInt("logfire.level_num", severity) >>

\* sendLog starting its span under context.Background() instead of ctx.
sendLogRoot(sp, ctx, msg, severity) ==
    LET started == TracerStart(sp, Background, msg)
        id      == Len(started)
    IN  SpanEnd(SetAttributes(started, id, LogAttributes(msg, severity)), id)

\* sendLog setting the attributes on the span ctx carries (SpanFromContext)
\* instead of on the span it started.
sendLogOnCurrentSpan(sp, ctx, msg, severity) ==
    LET started == TracerStart(sp, ctx, msg)
        id      == Len(started)
        target  == IF ctx = Background THEN id ELSE ctx
    IN  SpanEnd(SetAttributes(started, target, LogAttributes(msg, severity)), id)

\* sendLog: start a span named msg under ctx, set the four attributes, and
\* end it on return (defer span.End()).  Gives the spans afterwards.
sendLog(sp, ctx, msg, severity) ==
    LET started == TracerStart(sp, ctx, msg)
        id      == Len(started)
    IN  SpanEnd(SetAttributes(started, id, LogAttributes(msg, severity)), id)

\* The ids among 1..Len(after) of the spans a call ended: those that took an
\* End between before and after.
EndedBy(before, after) ==
    {i \in 1..Len(after) :
        after[i].endCalls > (IF i <= Len(before) THEN before[i].endCalls ELSE 0)}

\* sendLog drops its span handle and the context on return (_, span :=).  An
\* ended span that no SpanLogger holds belongs to the span processor alone:
\* spans keeps the ones a caller can still reach or that are still open.
Release(sp, ls) ==
    IF /\ sp # <<>>
       /\ sp[Len(sp)].ended
       /\ \A i \in 1..Len(ls) : ls[i].span # Len(sp) /\ ls[i].spanCtx # Len(sp)
    THEN SubSeq(sp, 1, Len(sp) - 1)
    ELSE sp

\* ---------------------------------------------------------------- the calls
\* started: how many spans the call started; emitted: the spans it ended, as
\* the span processor receives them (OnEnd).
Call(op) ==
    [op |-> op, logger |-> 0, ctx |-> 0, name |-> "", msg |-> "",
     severity |-> 0, ret |-> 0, err |-> "", opts |-> <<>>,
     cfg |-> config("", "", ""), started |-> 0, emitted |-> <<>>]

Running == status = "running"

NoProvider ==
    [installed |-> FALSE, endpointURL |-> "", authorization |-> "",
     serviceName |-> "", serviceVersion |-> ""]

NilTracer == [isNil |-> TRUE, name |-> "", provider |-> NoProvider]

NilLogger == [isNil |-> TRUE, spanCtx |-> Background, span |-> NilSpan]

Init ==
    /\ env \in Tokens
    /\ globalTracer = NilTracer
    /\ globalServiceName = ""
    /\ globalLogger = NilLogger
    /\ provider = NoProvider
    /\ loggers = <<>>
    /\ spans = <<>>
    /\ status = "running"
    /\ last = Call("none")

\* func ServiceName() string
ServiceName ==
    /\ Running
    /\ last' = [Call("ServiceName") EXCEPT !.name = globalServiceName]
    /\ UNCHANGED <<env, globalTracer, globalServiceName, globalLogger,
                   provider, loggers, spans, status>>

\* MissingToken after the globals were assigned: the check moved below
\* the tracer and logger assignments.
MissingTokenAfterGlobals(opts, c) ==
    /\ last' = [Call("Initialize") EXCEPT
                   !.opts = opts, !.cfg = c, !.ret = 0,
                   !.err = "config.APIToken is required"]
    /\ globalTracer' = [isNil |-> FALSE, name |-> logfireTracerName,
                        provider |-> provider]
    /\ globalLogger' = [isNil |-> FALSE, spanCtx |-> Background,
                        span |-> NilSpan]
    /\ UNCHANGED <<provider, status>>

\* if config.APIToken == "" { return nil, errors.New(...) }
MissingToken(opts, c) ==
    /\ last' = [Call("Initialize") EXCEPT
                   !.opts = opts, !.cfg = c, !.ret = 0,
                   !.err = "config.APIToken is required"]
    /\ UNCHANGED <<globalTracer, globalLogger, provider, status>>

\* func Initialize(ctx, opts...) (func(), error).  setupOK is whether the
\* exporter and the resource could be constructed; log.Fatalf exits otherwise.
\* ret is 1 when a teardown function is returned and 0 when nil is.
Initialize(opts, setupOK) ==
    /\ Running
    /\ LET c == newConfigWithDefaults(opts) IN
       /\ globalServiceName' = c.ServiceName
       /\ IF c.APIToken = ""
          THEN MissingToken(opts, c)
          ELSE IF ~setupOK
          THEN /\ status' = "exited"
               /\ last' = [Call("Initialize") EXCEPT !.opts = opts, !.cfg = c]
               /\ UNCHANGED <<globalTracer, globalLogger, provider>>
          ELSE LET p == [installed |-> TRUE,
                         endpointURL |-> c.Endpoint \o "/traces",
                         authorization |-> "Bearer " \o c.APIToken,
                         serviceName |-> c.ServiceName,
                         serviceVersion |-> serviceVersion]
               IN /\ provider' = p
                  /\ globalTracer' = [isNil |-> FALSE,
                                      name |-> logfireTracerName,
                                      provider |-> p]
                  /\ globalLogger' = [isNil |-> FALSE, spanCtx |-> Background,
                                      span |-> NilSpan]
                  /\ last' = [Call("Initialize") EXCEPT
                                 !.opts = opts, !.cfg = c, !.ret = 1]
                  /\ UNCHANGED status
    /\ UNCHANGED <<env, loggers, spans>>

\* Exporter and resource construction is reached only with a token.
SetupOutcomes(opts) ==
    IF newConfigWithDefaults(opts).APIToken = "" THEN {TRUE} ELSE BOOLEAN

\* The teardown function Initialize returned, run as the program leaves
\* (defer closer()): provider.Shutdown, after which the run is over.
Teardown ==
    /\ Running
    /\ provider.installed
    /\ status' = "shutdown"
    /\ last' = Call("Teardown")
    /\ UNCHANGED <<env, globalTracer, globalServiceName, globalLogger,
                   provider, loggers, spans>>

\* func Tracer() oteltrace.Tracer
Tracer ==
    /\ Running
    /\ IF globalTracer.isNil
       THEN /\ status' = "panicked"
            /\ last' = Call("Tracer")
       ELSE /\ last' = [Call("Tracer") EXCEPT !.ret = 1]
            /\ UNCHANGED status
    /\ UNCHANGED <<env, globalTracer, globalServiceName, globalLogger,
                   provider, loggers, spans>>

\* A log method of the SpanLogger lg: sendLog(s.spanCtx, msg, severity).
\* A nil receiver (no Initialize yet) or a nil tracer panics.
LogOn(op, lg, idx, msg, severity) ==
    /\ Running
    /\ IF lg.isNil \/ globalTracer.isNil
       THEN /\ status' = "panicked"
            /\ last' = [Call(op) EXCEPT !.logger = idx, !.msg = msg,
                                        !.severity = severity]
            /\ UNCHANGED spans
       ELSE LET after == sendLog(spans, lg.spanCtx, msg, severity) IN
            /\ spans' = Release(after, loggers)
            /\ last' = [Call(op) EXCEPT
                           !.logger = idx, !.msg = msg, !.severity = severity,
                           !.ctx = lg.spanCtx,
                           !.started = Len(after) - Len(spans),
                           !.emitted = [i \in 1..Cardinality(EndedBy(spans, after))
                                           |-> after[Len(spans) + i]]]
            /\ UNCHANGED status
    /\ UNCHANGED <<env, globalTracer, globalServiceName, globalLogger,
                   provider, loggers>>

\* The flat functions call the same method on globalLogger.
Trace(msg) == LogOn("Trace", globalLogger, 0, msg, SeverityTrace)

Debug(msg) == LogOn("Debug", globalLogger, 0, msg, SeverityDebug)

Info(msg) == LogOn("Info", globalLogger, 0, msg, SeverityInfo)

Warn(msg) == LogOn("Warn", globalLogger, 0, msg, SeverityWarn)

Error(msg) == LogOn("Error", globalLogger, 0, msg, SeverityError)

Fatal(msg) == LogOn("Fatal", globalLogger, 0, msg, SeverityFatal)

\* The methods of a SpanLogger the caller holds (s is its index in loggers).
SpanLoggerTrace(s, msg) ==
    LogOn("SpanLogger.Trace", loggers[s], s, msg, SeverityTrace)

SpanLoggerDebug(s, msg) ==
    LogOn("SpanLogger.Debug", loggers[s], s, msg, SeverityDebug)

SpanLoggerInfo(s, msg) ==
    LogOn("SpanLogger.Info", loggers[s], s, msg, SeverityInfo)

SpanLoggerWarn(s, msg) ==
    LogOn("SpanLogger.Warn", loggers[s], s, msg, SeverityWarn)

SpanLoggerError(s, msg) ==
    LogOn("SpanLogger.Error", loggers[s], s, msg, SeverityError)

SpanLoggerFatal(s, msg) ==
    LogOn("SpanLogger.Fatal", loggers[s], s, msg, SeverityFatal)

\* func (s *SpanLogger) Context() context.Context
Context(s) ==
    /\ Running
    /\ last' = [Call("Context") EXCEPT !.logger = s,
                                       !.ret = loggers[s].spanCtx]
    /\ UNCHANGED <<env, globalTracer, globalServiceName, globalLogger,
                   provider, loggers, spans, status>>

RECURSIVE SumCloses(_)
SumCloses(ls) == IF ls = <<>> THEN 0 ELSE Head(ls).closes + SumCloses(Tail(ls))

\* Close calls made so far, over all SpanLogger objects.
Closes == SumCloses(loggers)

\* Close that ends the span only while it is open.
CloseIfOpen(s) ==
    /\ Running
    /\ Closes < MaxCloses
    /\ loggers' = [loggers EXCEPT ![s].closes = @ + 1]
    /\ LET after == IF loggers[s].span = NoopSpan
                       \/ spans[loggers[s].span].ended
                    THEN spans
                    ELSE SpanEnd(spans, loggers[s].span)
       IN /\ spans' = after
          /\ last' = [Call("Close") EXCEPT
                         !.logger = s, !.ret = loggers[s].span,
                         !.emitted = IF EndedBy(spans, after) = {} THEN <<>>
                                     ELSE <<after[loggers[s].span]>>]
    /\ UNCHANGED <<env, globalTracer, globalServiceName, globalLogger,
                   provider, status>>

\* func (s *SpanLogger) Close(): s.span.End().  End on the no-op span does
\* nothing.
Close(s) ==
    /\ Running
    /\ Closes < MaxCloses
    /\ loggers' = [loggers EXCEPT ![s].closes = @ + 1]
    /\ LET after == IF loggers[s].span = NoopSpan THEN spans
                    ELSE SpanEnd(spans, loggers[s].span)
       IN /\ spans' = after
          /\ last' = [Call("Close") EXCEPT
                         !.logger = s, !.ret = loggers[s].span,
                         !.emitted = IF EndedBy(spans, after) = {} THEN <<>>
                                     ELSE <<after[loggers[s].span]>>]
    /\ UNCHANGED <<env, globalTracer, globalServiceName, globalLogger,
                   provider, status>>

\* NewSpanLogger starting its span under context.Background() instead of ctx.
NewSpanLoggerDetached(ctx, spanName) ==
    /\ Running
    /\ IF globalTracer.isNil
       THEN /\ status' = "panicked"
            /\ last' = [Call("NewSpanLogger") EXCEPT !.ctx = ctx,
                                                     !.name = spanName]
            /\ UNCHANGED <<loggers, spans>>
       ELSE /\ Len(loggers) < MaxLoggers
            /\ spans' = TracerStart(spans, Background, spanName)
            /\ loggers' = Append(loggers, [isNil |-> FALSE,
                                           spanCtx |-> Len(spans) + 1,
                                           span |-> Len(spans) + 1,
                                           made |-> "NewSpanLogger",
                                           closes |-> 0])
            /\ last' = [Call("NewSpanLogger") EXCEPT
                           !.ctx = ctx, !.name = spanName,
                           !.logger = Len(loggers) + 1,
                           !.ret = Len(spans) + 1,
                           !.started = 1]
            /\ UNCHANGED status
    /\ UNCHANGED <<env, globalTracer, globalServiceName, globalLogger,
                   provider>>

\* func NewSpanLogger(ctx, spanName) *SpanLogger
NewSpanLogger(ctx, spanName) ==
    /\ Running
    /\ IF globalTracer.isNil
       THEN /\ status' = "panicked"
            /\ last' = [Call("NewSpanLogger") EXCEPT !.ctx = ctx,
                                                     !.name = spanName]
            /\ UNCHANGED <<loggers, spans>>
       ELSE /\ Len(loggers) < MaxLoggers
            /\ spans' = TracerStart(spans, ctx, spanName)
            /\ loggers' = Append(loggers, [isNil |-> FALSE,
                                           spanCtx |-> Len(spans) + 1,
                                           span |-> Len(spans) + 1,
                                           made |-> "NewSpanLogger",
                                           closes |-> 0])
            /\ last' = [Call("NewSpanLogger") EXCEPT
                           !.ctx = ctx, !.name = spanName,
                           !.logger = Len(loggers) + 1,
                           !.ret = Len(spans) + 1,
                           !.started = 1]
            /\ UNCHANGED status
    /\ UNCHANGED <<env, globalTracer, globalServiceName, globalLogger,
                   provider>>

\* FromContext that also makes the logger it returns the global default
\* logger.
FromContextAsGlobal(ctx) ==
    /\ Running
    /\ Len(loggers) < MaxLoggers
    /\ loggers' = Append(loggers, [isNil |-> FALSE,
                                   spanCtx |-> ctx,
                                   span |-> SpanFromContext(ctx),
                                   made |-> "FromContext",
                                   closes |-> 0])
    /\ globalLogger' = [isNil |-> FALSE, spanCtx |-> ctx,
                        span |-> SpanFromContext(ctx)]
    /\ last' = [Call("FromContext") EXCEPT
                   !.ctx = ctx, !.logger = Len(loggers) + 1,
                   !.ret = SpanFromContext(ctx)]
    /\ UNCHANGED <<env, globalTracer, globalServiceName, provider, spans,
                   status>>

\* func FromContext(ctx) *SpanLogger
FromContext(ctx) ==
    /\ Running
    /\ Len(loggers) < MaxLoggers
    /\ loggers' = Append(loggers, [isNil |-> FALSE,
                                   spanCtx |-> ctx,
                                   span |-> SpanFromContext(ctx),
                                   made |-> "FromContext",
                                   closes |-> 0])
    /\ last' = [Call("FromContext") EXCEPT
                   !.ctx = ctx, !.logger = Len(loggers) + 1,
                   !.ret = SpanFromContext(ctx)]
    /\ UNCHANGED <<env, globalTracer, globalServiceName, globalLogger,
                   provider, spans, status>>

\* The contexts a caller can hold: Background or some logger's Context().
Contexts == {Background} \cup {loggers[i].spanCtx : i \in 1..Len(loggers)}

Next ==
    \/ \E opts \in SimpleOptionLists :
          \E setupOK \in SetupOutcomes(opts) : Initialize(opts, setupOK)
    \/ Teardown
    \/ ServiceName
    \/ Tracer
    \/ \E msg \in Msgs : Trace(msg)
    \/ \E msg \in Msgs : Debug(msg)
    \/ \E msg \in Msgs : Info(msg)
    \/ \E msg \in Msgs : Warn(msg)
    \/ \E msg \in Msgs : Error(msg)
    \/ \E msg \in Msgs : Fatal(msg)
    \/ \E s \in 1..Len(loggers), msg \in Msgs : SpanLoggerTrace(s, msg)
    \/ \E s \in 1..Len(loggers), msg \in Msgs : SpanLoggerDebug(s, msg)
    \/ \E s \in 1..Len(loggers), msg \in Msgs : SpanLoggerInfo(s, msg)
    \/ \E s \in 1..Len(loggers), msg \in Msgs : SpanLoggerWarn(s, msg)
    \/ \E s \in 1..Len(loggers), msg \in Msgs : SpanLoggerError(s, msg)
    \/ \E s \in 1..Len(loggers), msg \in Msgs : SpanLoggerFatal(s, msg)
    \/ \E s \in 1..Len(loggers) : Context(s)
    \/ \E s \in 1..Len(loggers) : Close(s)
    \/ \E ctx \in Contexts, spanName \in SpanNames : NewSpanLogger(ctx, spanName)
    \/ \E ctx \in Contexts : FromContext(ctx)

Spec == Init /\ [][Next]_vars

\* Initialize under every option list up to MaxOpts, with the calls that
\* read what it sets.
NextConfig ==
    \/ \E opts \in OptionLists :
          \E setupOK \in SetupOutcomes(opts) : Initialize(opts, setupOK)
    \/ Teardown
    \/ ServiceName
    \/ Tracer

SpecConfig == Init /\ [][NextConfig]_vars

\* ------------------------------------------------------------------ claims
FlatOps == {"Trace", "Debug", "Info", "Warn", "Error", "Fatal"}

ScopedOps == {"SpanLogger.Trace", "SpanLogger.Debug", "SpanLogger.Info",
              "SpanLogger.Warn", "SpanLogger.Error", "SpanLogger.Fatal"}

\* The numeric ordinal each severity is to carry.
Ordinal(op) ==
    CASE op \in {"Trace", "SpanLogger.Trace"} -> 1
      [] op \in {"Debug", "SpanLogger.Debug"} -> 5
      [] op \in {"Info",  "SpanLogger.Info"}  -> 9
      [] op \in {"Warn",  "SpanLogger.Warn"}  -> 13
      [] op \in {"Error", "SpanLogger.Error"} -> 17
      [] op \in {"Fatal", "SpanLogger.Fatal"} -> 21

\* The value of the last option of opts that sets field f, or default.
LastSet(opts, f, default) ==
    LET setters == {i \in 1..Len(opts) : opts[i].field = f} IN
    IF setters = {} THEN default
    ELSE opts[CHOOSE i \in setters : \A j \in setters : j <= i].value

\* C1: once Initialize has succeeded, whatever calls came in between, a flat
\* Trace/Debug/Info/Warn/Error/Fatal(msg) does not panic, starts one span and
\* emits exactly one record; the record carries logfire.level_num = the
\* severity's ordinal (1, 5, 9, 13, 17, 21), logfire.msg = msg and
\* logfire.span_type = "log".
C1_FlatLogEmitsOneRecord ==
    [][(provider.installed /\ last'.op \in FlatOps) =>
         /\ status' = "running"
         /\ last'.started = 1
         /\ Len(last'.emitted) = 1
         /\ LET r == last'.emitted[1] IN
            /\ r.ended /\ r.endCalls = 1
            /\ AttrOf(r.attrs, "logfire.level_num")
                  = [Key |-> "logfire.level_num", Type |-> "INT64",
                     S |-> "", I |-> Ordinal(last'.op)]
            /\ AttrOf(r.attrs, "logfire.msg").Type = "STRING"
            /\ AttrOf(r.attrs, "logfire.msg").S = last'.msg
            /\ AttrOf(r.attrs, "logfire.span_type").Type = "STRING"
            /\ AttrOf(r.attrs, "logfire.span_type").S = "log"]_vars

\* A flat Fatal that emitted its record after a failed re-Initialize and with
\* a span logger around.
C1_Witness ==
    /\ last.op = "Fatal"
    /\ Len(last.emitted) = 1
    /\ loggers # <<>>
    /\ globalServiceName # provider.serviceName

\* C2: when the resolved token (LOGFIRE_TOKEN overridden by the last
\* WithAPIToken option) is empty, Initialize returns an error and a nil
\* teardown and leaves globalTracer and globalLogger as they were; when it is
\* not empty, Initialize returns no such error.
C2_MissingTokenFails ==
    [][last'.op = "Initialize" =>
         IF LastSet(last'.opts, "APIToken", env) = ""
         THEN /\ last'.err # ""
              /\ last'.ret = 0
              /\ globalTracer' = globalTracer
              /\ globalLogger' = globalLogger
         ELSE last'.err = ""]_vars

\* Initialize failed for a token option that overrides the environment's
\* token.
C2_Witness ==
    /\ last.op = "Initialize"
    /\ last.err # ""
    /\ env # ""
    /\ ~globalTracer.isNil

\* C3: a failed Initialize commits nothing: every package-level variable,
\* the service name ServiceName() returns among them, is as it was before.
C3_FailedInitializeCommitsNothing ==
    [][(last'.op = "Initialize" /\ last'.err # "") =>
         /\ globalServiceName' = globalServiceName
         /\ globalTracer' = globalTracer
         /\ globalLogger' = globalLogger]_vars

\* The loggers bound to span i, and the Close calls made on them.
LoggersOn(i) == {l \in 1..Len(loggers) : loggers[l].span = i}

RECURSIVE ClosesOn(_, _)
ClosesOn(i, l) ==
    IF l = 0 THEN 0
    ELSE (IF loggers[l].span = i THEN loggers[l].closes ELSE 0)
            + ClosesOn(i, l - 1)

\* C4: a record emitted by a log call on a logger made by NewSpanLogger has
\* that logger's span as its parent; a record emitted by a flat function has
\* no parent.
C4_RecordParent ==
    [][/\ (/\ last'.op \in ScopedOps
           /\ status' = "running"
           /\ loggers[last'.logger].made = "NewSpanLogger") =>
             /\ Len(last'.emitted) = 1
             /\ last'.emitted[1].parent = loggers[last'.logger].span
             /\ last'.emitted[1].parent # 0
       /\ (last'.op \in FlatOps /\ status' = "running") =>
             /\ Len(last'.emitted) = 1
             /\ last'.emitted[1].parent = 0]_vars

\* A log call on the outer of two open nested scopes: its record hangs under
\* the outer span.
C4_Witness ==
    /\ last.op \in ScopedOps
    /\ last.logger = 1
    /\ Len(spans) = 2
    /\ spans[2].parent = 1
    /\ ~spans[1].ended /\ ~spans[2].ended
    /\ loggers[1].made = "NewSpanLogger"
    /\ last.emitted[1].parent = 1

\* C5: NewSpanLogger(ctx, name) starts exactly one span, named name; with
\* ctx = Background it is a root, with ctx = P.Context() its parent is P's
\* span; every span's parent was started before it, so the parent relation
\* is a forest.
C5_NewSpanLoggerNests ==
    /\ [](\A i \in 1..Len(spans) : spans[i].parent >= 0 /\ spans[i].parent < i)
    /\ [][(last'.op = "NewSpanLogger" /\ status' = "running") =>
            /\ last'.started = 1
            /\ Len(spans') = Len(spans) + 1
            /\ SubSeq(spans', 1, Len(spans)) = spans
            /\ spans'[Len(spans')].name = last'.name
            /\ last'.ctx = Background => spans'[Len(spans')].parent = 0
            /\ \A P \in 1..Len(loggers) :
                  loggers[P].spanCtx = last'.ctx =>
                     spans'[Len(spans')].parent = loggers[P].span]_vars

\* outer, then inner under outer.Context(), then inner.Warn("x"): the record
\* hangs under inner and inner under outer.
C5_Witness ==
    /\ last.op = "SpanLogger.Warn"
    /\ last.logger = 2
    /\ Len(spans) = 2
    /\ last.emitted[1].parent = 2
    /\ spans[2].parent = 1
    /\ spans[1].parent = 0
    /\ loggers[1].made = "NewSpanLogger"
    /\ loggers[2].made = "NewSpanLogger"

\* C6 as stated: while no logger object was closed more than once, every
\* span has received at most one End, and exactly one if a logger on it was
\* closed.
C6_OneEndPerSpan ==
    (\A l \in 1..Len(loggers) : loggers[l].closes <= 1) =>
        \A i \in 1..Len(spans) :
           /\ spans[i].endCalls <= 1
           /\ (\E l \in LoggersOn(i) : loggers[l].closes = 1) =>
                 spans[i].endCalls = 1

\* C6 amended: every Close call issues one End on its logger's span, so a
\* span has received as many Ends as Close calls were made on the loggers
\* bound to it; with each logger closed at most once that is the number of
\* closed loggers sharing the span.
C6_EndsMatchCloses ==
    \A i \in 1..Len(spans) :
       /\ spans[i].endCalls = ClosesOn(i, Len(loggers))
       /\ spans[i].ended <=> spans[i].endCalls > 0
       /\ (\A l \in LoggersOn(i) : loggers[l].closes <= 1) =>
             spans[i].endCalls
                = Cardinality({l \in LoggersOn(i) : loggers[l].closes = 1})

\* A span ended twice by two loggers that were each closed once.
C6_Witness ==
    /\ \A l \in 1..Len(loggers) : loggers[l].closes <= 1
    /\ \E i \in 1..Len(spans) : spans[i].endCalls = 2

\* C7: a span that has ended stays ended under every call, and an open span
\* ends only in a Close call on a logger bound to it.
C7_ClosedStaysClosed ==
    [][\A i \in 1..Len(spans) :
         /\ i <= Len(spans')
         /\ spans[i].ended => spans'[i].ended
         /\ (~spans[i].ended /\ spans'[i].ended) =>
               /\ last'.op = "Close"
               /\ loggers[last'.logger].span = i]_vars

\* A second Close on a logger whose span had already ended.
C7_Witness ==
    /\ last.op = "Close"
    /\ loggers[last.logger].closes = 2
    /\ loggers[last.logger].span # NoopSpan
    /\ spans[loggers[last.logger].span].ended

\* C8: FromContext(ctx) starts no span and leaves the spans as they are;
\* the logger it returns has ctx as its Context() and the span ctx carries
\* as its span; Close on such a logger ends that span, and a log call on it
\* emits a record under that span.
C8_FromContextWraps ==
    [][/\ last'.op = "FromContext" =>
            /\ spans' = spans
            /\ last'.started = 0
            /\ last'.emitted = <<>>
            /\ Len(loggers') = Len(loggers) + 1
            /\ SubSeq(loggers', 1, Len(loggers)) = loggers
            /\ loggers'[Len(loggers')].spanCtx = last'.ctx
            /\ last'.ctx # Background =>
                  loggers'[Len(loggers')].span = last'.ctx
       /\ (/\ last'.op = "Close"
           /\ loggers[last'.logger].made = "FromContext"
           /\ loggers[last'.logger].spanCtx # Background) =>
             LET i == loggers[last'.logger].spanCtx IN
             /\ spans'[i].ended
             /\ spans'[i].endCalls = spans[i].endCalls + 1
       /\ (/\ last'.op \in ScopedOps
           /\ status' = "running"
           /\ loggers[last'.logger].made = "FromContext") =>
             /\ Len(last'.emitted) = 1
             /\ last'.emitted[1].parent = loggers[last'.logger].spanCtx]_vars

\* Close on a FromContext logger ended the span of the scope whose context
\* it was given, while that scope's own logger was never closed.
C8_Witness ==
    /\ last.op = "Close"
    /\ Len(loggers) = 2
    /\ last.logger = 2
    /\ loggers[2].made = "FromContext"
    /\ loggers[1].made = "NewSpanLogger"
    /\ loggers[2].span = loggers[1].span
    /\ loggers[1].closes = 0
    /\ spans[loggers[1].span].ended

\* C9: a log call starts one record and ends it before it returns and leaves
\* every reachable span and every logger as it was; Context() changes
\* nothing and returns the logger's context, which no call ever changes; so
\* between calls every open span is the span of a scope no Close was called
\* on.
C9_LogAndContextLeaveScope ==
    /\ [](\A i \in 1..Len(spans) :
            ~spans[i].ended =>
               /\ \E l \in LoggersOn(i) : loggers[l].made = "NewSpanLogger"
               /\ \A l \in LoggersOn(i) : loggers[l].closes = 0)
    /\ [][/\ \A l \in 1..Len(loggers) :
                loggers'[l].spanCtx = loggers[l].spanCtx
          /\ (last'.op \in FlatOps \cup ScopedOps /\ status' = "running") =>
                /\ last'.started = 1
                /\ Len(last'.emitted) = 1
                /\ last'.emitted[1].ended
                /\ spans' = spans
                /\ loggers' = loggers
          /\ last'.op = "Context" =>
                /\ last'.ret = loggers[last'.logger].spanCtx
                /\ spans' = spans
                /\ loggers' = loggers]_vars

\* Context() on the outer scope after an inner scope was opened under it and
\* logged on: the same context inner was given.
C9_Witness ==
    /\ last.op = "Context"
    /\ last.logger = 1
    /\ Len(spans) = 2
    /\ spans[2].parent = last.ret
    /\ ~spans[1].ended

\* C10: the config Initialize builds has, for each field, the value of the
\* last option that sets the field, or the default (service name "", token
\* from LOGFIRE_TOKEN, endpoint the default URL) when none does.
C10_LastOptionWins ==
    [][last'.op = "Initialize" =>
         /\ last'.cfg.ServiceName = LastSet(last'.opts, "ServiceName", "")
         /\ last'.cfg.APIToken = LastSet(last'.opts, "APIToken", env)
         /\ last'.cfg.Endpoint = LastSet(last'.opts, "Endpoint",
                                   "https://logfire-api.pydantic.dev/v1")
         /\ globalServiceName' = LastSet(last'.opts, "ServiceName", "")]_vars

\* Initialize was given two options for one field with different values.
C10_Witness ==
    /\ last.op = "Initialize"
    /\ Len(last.opts) = 2
    /\ last.opts[1].field = last.opts[2].field
    /\ last.opts[1].value # last.opts[2].value
    /\ last.cfg.APIToken = "tok"
    /\ last.ret = 1

\* The logging and scope calls: every facade call but Initialize and the
\* teardown it returns.
LoggingOps ==
    FlatOps \cup ScopedOps
        \cup {"NewSpanLogger", "FromContext", "Context", "Close", "Tracer",
              "ServiceName"}

\* C11: once Initialize has succeeded, no logging or scope call, in whatever
\* order callers issue them, writes globalTracer, globalServiceName or
\* globalLogger: each such call leaves the three as they were, so the tracer
\* and the default logger stay the ones Initialize installed, and the calls
\* only read them (ServiceName returns the stored name, Tracer does not
\* panic).
C11_GlobalsReadOnlyAfterInitialize ==
    /\ [](provider.installed =>
            /\ globalTracer = [isNil |-> FALSE, name |-> "logfire",
                               provider |-> provider]
            /\ globalLogger = [isNil |-> FALSE, spanCtx |-> 0,
                               span |-> NilSpan])
    /\ [][(provider.installed /\ last'.op \in LoggingOps) =>
            /\ globalTracer' = globalTracer
            /\ globalServiceName' = globalServiceName
            /\ globalLogger' = globalLogger
            /\ provider' = provider
            /\ status' = "running"
            /\ last'.op = "ServiceName" => last'.name = globalServiceName]_vars

\* A scoped log call after Initialize(WithServiceName("svc-a")) succeeded,
\* with two loggers made and one of them closed: the service name is still
\* the one Initialize stored.
C11_Witness ==
    /\ last.op \in ScopedOps
    /\ provider.installed
    /\ Len(loggers) = 2
    /\ loggers[1].closes = 1
    /\ globalServiceName = "svc-a"
    /\ provider.serviceName = "svc-a"
====
